---- MODULE Spec2Model ----
(***************************************************************************)
(* FairQueue / FairStack (src/src/queue.rs, src/src/stack.rs).             *)
(*                                                                         *)
(* Both containers are driven by one caller with the same sequence of      *)
(* calls: every insert(v) on the queue is a push(v) on the stack and every *)
(* pop() is issued to both.  Item references are the numbers 1..NumValues, *)
(* None (Option::None) is 0.  Indices are 0-based as in the source; the    *)
(* TLA+ sequences that hold Vec / VecDeque contents are 1-based, so the    *)
(* element at index i is s[i + 1].                                         *)
(***************************************************************************)
EXTENDS Integers, Sequences, FiniteSets, Bags, TLC

\* ---------------------------------------------------------------- bounds
NumValues == 5
NumAnyValues == 3
NumGroups == 3
MaxOps == 6
MaxLen == 4
MaxLiveLen == 3

Values == 1..NumValues
None == 0
Kinds == {"queue", "stack"}

\* The logical group of an item (the `group` field of the tests' Event).
Grp(v) == ((v - 1) % NumGroups) + 1

\* ------------------------------------------------------------ predicates
\* A FairGroup implementation is the set of pairs <<a, b>> for which
\* a.is_same_group(b) returns true.
GroupPred == {pr \in Values \X Values : Grp(pr[1]) = Grp(pr[2])}
TruePred == Values \X Values
FalsePred == {}
LessPred == {pr \in Values \X Values : pr[1] < pr[2]}
DiffPred == {pr \in Values \X Values : pr[1] # pr[2]}
NearPred == {pr \in Values \X Values : pr[1] - pr[2] \in {-1, 0, 1}}
Preds == {GroupPred, TruePred, FalsePred, LessPred, DiffPred, NearPred}

VARIABLES
    queue,      \* FairQueue { groups, pointer, len }
    stack,      \* FairStack { groups, pointer, len }
    pred,       \* the caller's FairGroup implementation
    last,       \* the latest call and what it returned from each container
    log,        \* the calls so far that changed the contents
    recording   \* whether the caller keeps the log

vars == <<queue, stack, pred, last, log, recording>>

\* receiver.is_same_group(other)
is_same_group(receiver, other) == <<receiver, other>> \in pred

\* ------------------------------------------------------- Vec / VecDeque
\* VecDeque::front, Vec::last (None when empty)
front(g) == IF g = <<>> THEN None ELSE g[1]
back(g) == IF g = <<>> THEN None ELSE g[Len(g)]

\* (push_front in place of push_back)
PushFront(g, v) == <<v>> \o g

\* VecDeque::push_back, Vec::push
push_back(g, v) == Append(g, v)
vec_push(g, v) == Append(g, v)

\* (front().copied(): the item stays in the deque)
PopFrontKeep(g) == [item |-> g[1], rest |-> g]

\* (pop_back in place of pop_front)
PopFrontFromBack(g) == [item |-> g[Len(g)], rest |-> SubSeq(g, 1, Len(g) - 1)]

\* VecDeque::pop_front on a non-empty deque: the item and what is left.
pop_front(g) == [item |-> g[1], rest |-> SubSeq(g, 2, Len(g))]

\* (remove(0) in place of pop)
VecPopFromFront(g) == [item |-> g[1], rest |-> SubSeq(g, 2, Len(g))]

\* Vec::pop on a non-empty vector: the item and what is left.
vec_pop(g) == [item |-> g[Len(g)], rest |-> SubSeq(g, 1, Len(g) - 1)]

\* (pop() in place of swap_remove(idx): the last group is dropped)
SwapRemoveLast(gs, idx) == SubSeq(gs, 1, Len(gs) - 1)

\* (Vec::remove: the later groups shift down by one)
RemoveShift(gs, idx) == SubSeq(gs, 1, idx) \o SubSeq(gs, idx + 2, Len(gs))

\* Vec::swap_remove(idx): the last element takes the place of the removed
\* one and the vector shrinks by one.
swap_remove(gs, idx) ==
    IF idx = Len(gs) - 1
    THEN SubSeq(gs, 1, Len(gs) - 1)
    ELSE [SubSeq(gs, 1, Len(gs) - 1) EXCEPT ![idx + 1] = gs[Len(gs)]]

\* FairQueue::new / FairStack::new
new == [groups |-> <<>>, pointer |-> 0, len |-> 0]

\* --------------------------------------------------------------- insert
\* (only is_same_group is asked, ptr::eq never)
QueueMatchesPredicate(g, value) == g # <<>> /\ is_same_group(front(g), value)

\* (only the identity test, is_same_group is never asked)
QueueMatchesIdentity(g, value) == g # <<>> /\ front(g) = value

\* The closure handed to find() in FairQueue::insert.
QueueMatches(g, value) ==
    g # <<>> /\ (front(g) = value \/ is_same_group(front(g), value))

\* (is_same_group is asked of the new item, about the group's last item)
StackMatchesCandidate(g, value) ==
    g # <<>> /\ (back(g) = value \/ is_same_group(value, back(g)))

\* The closure handed to find() in FairStack::push and peek_group.
StackMatches(g, value) ==
    g # <<>> /\ (back(g) = value \/ is_same_group(back(g), value))

\* (the first group is taken without asking the closure)
QueueFindFirst(gs, value) == IF gs = <<>> THEN -1 ELSE 0

\* (the last matching group in place of the first)
QueueFindLast(gs, value) ==
    IF \E i \in 1..Len(gs) : QueueMatches(gs[i], value)
    THEN (CHOOSE i \in 1..Len(gs) :
             /\ QueueMatches(gs[i], value)
             /\ \A j \in (i + 1)..Len(gs) : ~QueueMatches(gs[j], value)) - 1
    ELSE -1

\* iter_mut().find(..): the 0-based index of the first matching group,
\* or -1 when there is none.
QueueFind(gs, value) ==
    IF \E i \in 1..Len(gs) : QueueMatches(gs[i], value)
    THEN (CHOOSE i \in 1..Len(gs) :
             /\ QueueMatches(gs[i], value)
             /\ \A j \in 1..(i - 1) : ~QueueMatches(gs[j], value)) - 1
    ELSE -1

\* (no group is ever found: every push founds a group)
StackFindNone(gs, value) == -1

StackFind(gs, value) ==
    IF \E i \in 1..Len(gs) : StackMatches(gs[i], value)
    THEN (CHOOSE i \in 1..Len(gs) :
             /\ StackMatches(gs[i], value)
             /\ \A j \in 1..(i - 1) : ~StackMatches(gs[j], value)) - 1
    ELSE -1

\* (len is only counted when a group is created)
InsertNoCount(c, value) ==
    LET idx == QueueFind(c.groups, value) IN
    IF idx >= 0
    THEN [c EXCEPT !.groups = [c.groups EXCEPT ![idx + 1] = push_back(@, value)]]
    ELSE [c EXCEPT !.groups = Append(c.groups, <<value>>), !.len = c.len + 1]

\* (the pointer restarts at the first group on every insert)
InsertResetsPointer(c, value) ==
    LET idx == QueueFind(c.groups, value) IN
    [c EXCEPT
        !.groups = IF idx >= 0
                   THEN [c.groups EXCEPT ![idx + 1] = push_back(@, value)]
                   ELSE Append(c.groups, <<value>>),
        !.pointer = 0,
        !.len = c.len + 1]

\* (a new group is put in front of the others)
InsertNewGroupFirst(c, value) ==
    LET idx == QueueFind(c.groups, value) IN
    [c EXCEPT
        !.groups = IF idx >= 0
                   THEN [c.groups EXCEPT ![idx + 1] = push_back(@, value)]
                   ELSE <<<<value>>>> \o c.groups,
        !.len = c.len + 1]

\* FairQueue::insert
insert(c, value) ==
    LET idx == QueueFind(c.groups, value) IN
    [c EXCEPT
        !.groups = IF idx >= 0
                   THEN [c.groups EXCEPT ![idx + 1] = push_back(@, value)]
                   ELSE Append(c.groups, <<value>>),
        !.len = c.len + 1]

\* (the count goes up by two)
PushCountsTwice(c, value) ==
    LET idx == StackFind(c.groups, value) IN
    [c EXCEPT
        !.groups = IF idx >= 0
                   THEN [c.groups EXCEPT ![idx + 1] = vec_push(@, value)]
                   ELSE Append(c.groups, <<value>>),
        !.len = c.len + 2]

\* FairStack::push
push(c, value) ==
    LET idx == StackFind(c.groups, value) IN
    [c EXCEPT
        !.groups = IF idx >= 0
                   THEN [c.groups EXCEPT ![idx + 1] = vec_push(@, value)]
                   ELSE Append(c.groups, <<value>>),
        !.len = c.len + 1]

\* ------------------------------------------------------------------ pop
\* The outcome of a call: the container afterwards, the returned item and
\* the number of loop iterations that were started.
Outcome(c, ret, iters) == [c |-> c, ret |-> ret, iters |-> iters]

\* (the pointer is never reset after a group was removed)
QueueAfterRemovalKeep(p, n) == p

\* (the pointer always restarts at the first group after a removal)
QueueAfterRemovalRestart(p, n) == 0

\* if self.groups.is_empty() || self.pointer >= self.groups.len()
\*     { self.pointer = 0; }
QueueAfterRemoval(p, n) == IF n = 0 \/ p >= n THEN 0 ELSE p

\* (the pointer is left where it was)
QueueAdvanceStay(p, n) == p % n

\* self.pointer = (self.pointer + 1) % self.groups.len()
QueueAdvance(p, n) == (p + 1) % n

\* One run of the `loop` in FairQueue::pop.
RECURSIVE QueuePopLoop(_, _)
QueuePopLoop(c, iters) ==
    IF c.groups = <<>>
    THEN Outcome([c EXCEPT !.pointer = 0], None, iters)
    ELSE
      LET p == IF c.pointer >= Len(c.groups) THEN 0 ELSE c.pointer
          group == c.groups[p + 1]
      IN
      IF group # <<>>
      THEN
        LET popped == pop_front(group)
            taken == [c.groups EXCEPT ![p + 1] = popped.rest]
            removed == swap_remove(taken, p)
        IN
        IF popped.rest = <<>>
        THEN Outcome([groups |-> removed,
                      pointer |-> QueueAfterRemoval(p, Len(removed)),
                      len |-> c.len - 1], popped.item, iters)
        ELSE Outcome([groups |-> taken,
                      pointer |-> QueueAdvance(p, Len(taken)),
                      len |-> c.len - 1], popped.item, iters)
      ELSE
        LET removed == swap_remove(c.groups, p) IN
        IF removed = <<>>
        THEN Outcome([c EXCEPT !.groups = removed, !.pointer = 0], None, iters)
        ELSE QueuePopLoop([c EXCEPT !.groups = removed,
                                    !.pointer = IF p >= Len(removed)
                                                THEN 0 ELSE p],
                          iters + 1)

\* (no early return; the count goes down on every call)
QueuePopCountsAlways(c) ==
    LET o == QueuePopLoop(c, 1) IN
    IF o.ret = None
    THEN Outcome([o.c EXCEPT !.len = c.len - 1], None, o.iters)
    ELSE o

\* (len <= 1 in place of len == 0)
QueuePopOffByOne(c) ==
    IF c.len <= 1 THEN Outcome(c, None, 0) ELSE QueuePopLoop(c, 1)

\* FairQueue::pop
QueuePop(c) ==
    IF c.len = 0 THEN Outcome(c, None, 0) ELSE QueuePopLoop(c, 1)

\* (the pointer always restarts at the first group after a removal)
StackAfterRemovalRestart(p, n) == 0

\* if self.groups.is_empty() || self.pointer >= self.groups.len()
\*     { self.pointer = 0; }
StackAfterRemoval(p, n) == IF n = 0 \/ p >= n THEN 0 ELSE p

\* (the pointer is left where it was)
StackAdvanceStay(p, n) == p % n

\* self.pointer = (self.pointer + 1) % self.groups.len()
StackAdvance(p, n) == (p + 1) % n

\* One run of the `loop` in FairStack::pop.
RECURSIVE StackPopLoop(_, _)
StackPopLoop(c, iters) ==
    IF c.groups = <<>>
    THEN Outcome([c EXCEPT !.pointer = 0], None, iters)
    ELSE
      LET p == IF c.pointer >= Len(c.groups) THEN 0 ELSE c.pointer
          group == c.groups[p + 1]
      IN
      IF group # <<>>
      THEN
        LET popped == vec_pop(group)
            taken == [c.groups EXCEPT ![p + 1] = popped.rest]
            removed == swap_remove(taken, p)
        IN
        IF popped.rest = <<>>
        THEN Outcome([groups |-> removed,
                      pointer |-> StackAfterRemoval(p, Len(removed)),
                      len |-> c.len - 1], popped.item, iters)
        ELSE Outcome([groups |-> taken,
                      pointer |-> StackAdvance(p, Len(taken)),
                      len |-> c.len - 1], popped.item, iters)
      ELSE
        LET removed == swap_remove(c.groups, p) IN
        IF removed = <<>>
        THEN Outcome([c EXCEPT !.groups = removed, !.pointer = 0], None, iters)
        ELSE StackPopLoop([c EXCEPT !.groups = removed,
                                    !.pointer = IF p >= Len(removed)
                                                THEN 0 ELSE p],
                          iters + 1)

\* FairStack::pop
StackPop(c) ==
    IF c.len = 0 THEN Outcome(c, None, 0) ELSE StackPopLoop(c, 1)

\* ----------------------------------------------------------------- peek
\* (the first group in place of the group at the pointer)
QueuePeekFirst(c) ==
    IF c.groups = <<>> THEN None ELSE front(c.groups[1])

\* FairQueue::peek
QueuePeek(c) ==
    IF c.groups = <<>> THEN None
    ELSE IF c.pointer >= Len(c.groups) THEN None
    ELSE front(c.groups[c.pointer + 1])

\* FairStack::peek
StackPeek(c) ==
    IF c.groups = <<>> THEN None
    ELSE IF c.pointer >= Len(c.groups) THEN None
    ELSE back(c.groups[c.pointer + 1])

\* (the round-robin pointer is not reset)
ClearKeepPointer(c) == [c EXCEPT !.groups = <<>>, !.len = 0]

\* FairQueue::clear / FairStack::clear
clear(c) == [c EXCEPT !.groups = <<>>, !.pointer = 0, !.len = 0]

\* ------------------------------------------------------------ the caller
Call(op, arg, retq, rets) ==
    [op |-> op, arg |-> arg, ret |-> [queue |-> retq, stack |-> rets]]

Record(call) == IF recording THEN Append(log, call) ELSE log

\* queue.insert(&v); stack.push(&v);
Insert(v) ==
    /\ queue' = insert(queue, v)
    /\ stack' = push(stack, v)
    /\ last' = Call("insert", v, None, None)
    /\ log' = Record(last')
    /\ UNCHANGED <<pred, recording>>

\* queue.pop(); stack.pop();
Pop ==
    LET q == QueuePop(queue)
        s == StackPop(stack)
    IN
    /\ queue' = q.c
    /\ stack' = s.c
    /\ last' = Call("pop", None, q.ret, s.ret)
    /\ log' = IF q.ret = None /\ s.ret = None THEN log ELSE Record(last')
    /\ UNCHANGED <<pred, recording>>

\* queue.clear(); stack.clear();  The caller forgets the dropped items and
\* keeps how many there were (len() of both, read before the call).
Clear ==
    /\ queue' = clear(queue)
    /\ stack' = clear(stack)
    /\ last' = Call("clear", queue.len + stack.len, None, None)
    /\ log' = <<>>
    /\ UNCHANGED <<pred, recording>>

InitWith(p, r) ==
    /\ queue = new
    /\ stack = new
    /\ pred = p
    /\ last = Call("new", None, None, None)
    /\ log = <<>>
    /\ recording = r

\* Values that the caller has handed over since the last clear.
Inserted == {log[i].arg : i \in {j \in 1..Len(log) : log[j].op = "insert"}}

\* Spec: the item type of the tests (is_same_group compares the group
\* field); the caller hands over every reference at most once.
Init == InitWith(GroupPred, TRUE)

Next ==
    \/ \E v \in Values \ Inserted : Insert(v)
    \/ Pop
    \/ Clear

Spec == Init /\ [][Next]_vars

\* SpecAny: any FairGroup implementation of Preds, any of the first
\* NumAnyValues references at any time (also one that is resident).
InitAny == \E p \in Preds : InitWith(p, TRUE)

NextAny ==
    \/ \E v \in 1..NumAnyValues :
          /\ Len(log) < MaxOps
          /\ queue.len < MaxLen
          /\ Insert(v)
    \/ (Len(log) < MaxOps \/ queue.len = 0) /\ Pop
    \/ Clear

SpecAny == InitAny /\ [][NextAny]_vars

\* ------------------------------------------------------- reading the log
Container(k) == IF k = "queue" THEN queue ELSE stack

\* The items a container holds, as a set and as a bag.
RECURSIVE Flatten(_)
Flatten(gs) == IF gs = <<>> THEN <<>> ELSE Head(gs) \o Flatten(Tail(gs))

Resident(k) ==
    LET f == Flatten(Container(k).groups) IN {f[i] : i \in 1..Len(f)}

\* Positions of the log.
InsertAt(i) == log[i].op = "insert"
PopAt(i) == log[i].op = "pop"
Returned(k, i) == log[i].ret[k]

\* How often v was handed over / returned by k before position i of the log.
InsertedBefore(v, i) ==
    Cardinality({j \in 1..(i - 1) : InsertAt(j) /\ log[j].arg = v})
ReturnedBefore(k, v, i) ==
    Cardinality({j \in 1..(i - 1) : PopAt(j) /\ Returned(k, j) = v})

\* The items pending in container k just before the call at position i.
PendingBefore(k, i) ==
    {v \in Values : InsertedBefore(v, i) > ReturnedBefore(k, v, i)}
PendingGroupsBefore(k, i) == {Grp(v) : v \in PendingBefore(k, i)}

\* The position of the successful pop that precedes the pop at position j
\* (0 when there is none).
PrecedingPop(j) ==
    IF \E i \in 1..(j - 1) : PopAt(i)
    THEN CHOOSE i \in 1..(j - 1) :
            PopAt(i) /\ \A m \in (i + 1)..(j - 1) : ~PopAt(m)
    ELSE 0

\* -------------------------------------------------------------------- C1
\* C1 (drain spacing): two pops with no insert between them do not return
\* items of the same group, unless that group is the only one with pending
\* items when the second pop is called.  (Stated of the latest entry of
\* the log: every pop is the latest entry in the state it leads to.)
DrainSpacing ==
    \A k \in Kinds :
        LET j == Len(log) IN
        (j >= 2 /\ PopAt(j - 1) /\ PopAt(j)
            /\ Grp(Returned(k, j - 1)) = Grp(Returned(k, j)))
        => PendingGroupsBefore(k, j) = {Grp(Returned(k, j))}

\* All values were inserted, then all were popped: the drain started with
\* every group pending and came back to a group it had served before.
DrainSpacingWitness ==
    /\ Len(log) = 2 * NumValues
    /\ \A i \in 1..NumValues : InsertAt(i)
    /\ \A i \in (NumValues + 1)..(2 * NumValues) : PopAt(i)
    /\ \A k \in Kinds :
          /\ Cardinality(PendingGroupsBefore(k, NumValues + 1)) = NumGroups
          /\ \E i, j \in (NumValues + 1)..(2 * NumValues) :
                i + 1 < j /\ Grp(Returned(k, i)) = Grp(Returned(k, j))

\* -------------------------------------------------------------------- C2
\* C2 (spacing under interleaving): a pop that is called while two or more
\* groups have pending items does not service the group of the preceding
\* successful pop, whether or not inserts happened between the two.
InterleavedSpacing ==
    \A k \in Kinds : \A j \in 1..Len(log) :
        (PopAt(j) /\ PrecedingPop(j) # 0
            /\ Cardinality(PendingGroupsBefore(k, j)) >= 2)
        => Grp(Returned(k, j)) # Grp(Returned(k, PrecedingPop(j)))

\* -------------------------------------------------------------------- C3
\* SpecLive: a long-running caller.  It keeps no log, hands a reference
\* over again once both containers have returned it, never lets more than
\* MaxLiveLen items wait, and keeps calling pop.
InitLive == InitWith(GroupPred, FALSE)

NextLive ==
    \/ \E v \in Values \ (Resident("queue") \cup Resident("stack")) :
          /\ queue.len < MaxLiveLen
          /\ Insert(v)
    \/ Pop

SpecLive == InitLive /\ [][NextLive]_vars /\ WF_vars(Pop)

GroupPending(k, g) == \E v \in Resident(k) : Grp(v) = g
GroupServed(k, g) ==
    last.op = "pop" /\ last.ret[k] # None /\ Grp(last.ret[k]) = g

\* C3 (no starvation): when pop is called again and again, every item
\* waiting in the queue is eventually returned, and in both containers
\* every group with pending items is eventually serviced.
NoStarvation ==
    /\ \A v \in Values :
          (v \in Resident("queue")) ~> (v \notin Resident("queue"))
    /\ \A k \in Kinds : \A g \in 1..NumGroups :
          GroupPending(k, g) ~> GroupServed(k, g)

\* -------------------------------------------------------------------- C4
InsertedCount(v) == InsertedBefore(v, Len(log) + 1)
ReturnedCount(k, v) == ReturnedBefore(k, v, Len(log) + 1)
NumInserts == Cardinality({i \in 1..Len(log) : InsertAt(i)})
NumPops == Cardinality({i \in 1..Len(log) : PopAt(i)})

\* C4 (conservation): every item was handed over exactly as often as it was
\* returned plus as often as it is still resident; when pop returns none,
\* as many items were returned as were inserted, each as often as inserted.
Conservation ==
    \A k \in Kinds :
        LET resident == Flatten(Container(k).groups)
            Occurs(v) == Cardinality({i \in 1..Len(resident) : resident[i] = v})
        IN
        /\ \A v \in Values :
              InsertedCount(v) = ReturnedCount(k, v) + Occurs(v)
        /\ \A i \in 1..Len(resident) : resident[i] \in Values
        /\ \A i \in 1..Len(log) : PopAt(i) => Returned(k, i) \in Values
        /\ (last.op = "pop" /\ last.ret[k] = None) =>
              /\ NumPops = NumInserts
              /\ \A v \in Values : ReturnedCount(k, v) = InsertedCount(v)

\* Three or more items, one of them handed over twice, were drained until
\* pop returned none.
ConservationWitness ==
    /\ last.op = "pop"
    /\ \A k \in Kinds : last.ret[k] = None
    /\ NumInserts >= 3
    /\ \E v \in Values : InsertedCount(v) = 2

\* -------------------------------------------------------------------- C5
\* C5 (queue, FIFO inside a group): if x and y are of the same group and x
\* was inserted before y, the queue does not return y before x.  (Stated of
\* the pop that is the latest entry of the log: when it returns y, every x
\* of y's group that was inserted before y has been returned already.)
QueueFifo ==
    LET m == Len(log) IN
    (m >= 1 /\ PopAt(m)) =>
        \A i, j \in 1..(m - 1) :
            (InsertAt(i) /\ InsertAt(j) /\ i < j
                /\ log[j].arg = Returned("queue", m)
                /\ Grp(log[i].arg) = Grp(log[j].arg))
            => \E n \in 1..(m - 1) :
                  PopAt(n) /\ Returned("queue", n) = log[i].arg

\* x and y of one group were both returned, with an insert and the pop of
\* another group between the two pops.
QueueFifoWitness ==
    \E n, m \in 1..Len(log) :
        /\ n + 2 < m /\ PopAt(n) /\ PopAt(m)
        /\ Grp(Returned("queue", n)) = Grp(Returned("queue", m))
        /\ \E a, b \in (n + 1)..(m - 1) :
              /\ InsertAt(a)
              /\ PopAt(b)
              /\ Grp(Returned("queue", b)) # Grp(Returned("queue", n))

\* -------------------------------------------------------------------- C6
\* Where v was pushed (every reference is pushed at most once under Spec).
InsertPos(v) == CHOOSE i \in 1..Len(log) : InsertAt(i) /\ log[i].arg = v

\* C6 (stack, LIFO inside a group): the item the stack returns is the most
\* recently pushed one among the resident items of its group.  (Stated of
\* the pop that is the latest entry of the log.)
StackLifo ==
    LET m == Len(log) IN
    (m >= 1 /\ PopAt(m)) =>
        \A x \in PendingBefore("stack", m) :
            Grp(x) = Grp(Returned("stack", m))
            => InsertPos(x) <= InsertPos(Returned("stack", m))

\* The stack returned the younger of two resident items of one group, after
\* pushes and pops had been interleaved.
StackLifoWitness ==
    \E m \in 1..Len(log) :
        /\ PopAt(m)
        /\ \E x \in PendingBefore("stack", m) \ {Returned("stack", m)} :
              Grp(x) = Grp(Returned("stack", m))
        /\ \E i \in 1..(m - 2) : PopAt(i) /\ InsertAt(i + 1)

\* -------------------------------------------------------------------- C7
PeekOf(k) == IF k = "queue" THEN QueuePeek(queue) ELSE StackPeek(stack)

\* C7 (peek/pop coherence): every pop returns what peek returns in the
\* state the pop is called in, and peek is not none while len > 0.
PeekPopCoherence ==
    /\ [][last'.op = "pop" => \A k \in Kinds : last'.ret[k] = PeekOf(k)]_vars
    /\ [](\A k \in Kinds : Container(k).len > 0 => PeekOf(k) # None)

\* A pop returned an item from a group other than the first one and left
\* the cursor on a later group.
PeekPopWitness ==
    /\ last.op = "pop"
    /\ \A k \in Kinds :
          /\ last.ret[k] # None
          /\ Container(k).pointer > 0
          /\ PeekOf(k) # None

\* -------------------------------------------------------------------- C8
\* C8 (empty pop): pop returns none exactly when len = 0, and then leaves
\* groups, cursor and count as they were.
EmptyPop ==
    [][last'.op = "pop" =>
          /\ (last'.ret["queue"] = None) <=> (queue.len = 0)
          /\ (last'.ret["stack"] = None) <=> (stack.len = 0)
          /\ last'.ret["queue"] = None => queue' = queue
          /\ last'.ret["stack"] = None => stack' = stack]_vars

\* The containers were filled, drained, and pop then returned none.
EmptyPopWitness ==
    /\ last.op = "pop"
    /\ \A k \in Kinds : last.ret[k] = None /\ Container(k) = new
    /\ NumPops >= 2

\* -------------------------------------------------------------------- C9
\* C9 (invariant 1): no group of the bucket sequence is empty, whatever the
\* predicate.
NoEmptyGroup ==
    \A k \in Kinds :
        \A i \in 1..Len(Container(k).groups) : Container(k).groups[i] # <<>>

\* With the constant-false predicate a pop returned an item that had been
\* handed over once, so it drained a group, while other groups remain.
NoEmptyGroupWitness ==
    /\ pred = FalsePred
    /\ last.op = "pop"
    /\ \A k \in Kinds :
          /\ last.ret[k] # None
          /\ InsertedCount(last.ret[k]) = 1
          /\ Len(Container(k).groups) >= 2

\* ------------------------------------------------------------------- C10
\* C10 (invariant 2): len is the sum of the sizes of the groups, and it is
\* the number of inserts minus the number of pops that returned an item.
CountConsistent ==
    \A k \in Kinds :
        /\ Container(k).len = Len(Flatten(Container(k).groups))
        /\ Container(k).len = NumInserts - NumPops

\* With a predicate that is not transitive, items were inserted into shared
\* and separate groups and some were popped.
CountConsistentWitness ==
    /\ pred = NearPred
    /\ NumPops >= 1
    /\ \A k \in Kinds :
          /\ Container(k).len >= 3
          /\ Len(Container(k).groups) >= 2
          /\ Len(Container(k).groups) < Container(k).len

\* ------------------------------------------------------------------- C11
\* C11 (invariant 3): after every call the cursor is 0 when there is no
\* group and otherwise smaller than the number of groups.
CursorValid ==
    \A k \in Kinds :
        /\ Container(k).pointer >= 0
        /\ Container(k).groups = <<>> => Container(k).pointer = 0
        /\ Container(k).groups # <<>>
              => Container(k).pointer < Len(Container(k).groups)

\* A pop returned the only copy of an item; at least two groups remain and
\* the cursor is on the last of them.
CursorValidWitness ==
    /\ last.op = "pop"
    /\ \A k \in Kinds :
          /\ last.ret[k] # None
          /\ InsertedCount(last.ret[k]) = 1
          /\ ReturnedCount(k, last.ret[k]) = 1
          /\ last.ret[k] \notin Resident(k)
          /\ Len(Container(k).groups) >= 2
          /\ Container(k).pointer = Len(Container(k).groups) - 1

\* ------------------------------------------------------------------- C12
\* C12 (clear): after clear both containers are what new() constructs (no
\* groups, cursor 0, count 0), so peek is none and pop returns none, and
\* every later call starts from the state of a fresh container.
ClearResets ==
    last.op = "clear" =>
        /\ queue = new
        /\ stack = new
        /\ \A k \in Kinds :
              /\ Container(k).len = 0
              /\ Container(k).groups = <<>>
              /\ Container(k).pointer = 0
              /\ PeekOf(k) = None
        /\ QueuePop(queue).ret = None
        /\ StackPop(stack).ret = None

\* clear dropped at least two items from each container.
ClearResetsWitness ==
    /\ last.op = "clear"
    /\ last.arg >= 4

\* ------------------------------------------------------------------- C13
\* The pops at n and m are successive services of one group with no insert
\* (and no other pop of that group) between them.
SuccessiveServices(k, n, m) ==
    /\ n < m /\ PopAt(n) /\ PopAt(m)
    /\ Grp(Returned(k, n)) = Grp(Returned(k, m))
    /\ \A i \in (n + 1)..(m - 1) :
          PopAt(i) /\ Grp(Returned(k, i)) # Grp(Returned(k, m))

ScenarioGroups == <<1, 2, 1, 3, 2, 1, 1, 3>>
ScenarioEvents == 1..Len(ScenarioGroups)
ScenarioPred ==
    {pr \in ScenarioEvents \X ScenarioEvents :
        ScenarioGroups[pr[1]] = ScenarioGroups[pr[2]]}

\* The order in which the test expects the events back.
ScenarioPops == <<1, 2, 4, 3, 5, 8, 6, 7>>

\* SpecScenario: the caller inserts event1 .. event8 in this order and may
\* call pop at any time.
InitScenario == InitWith(ScenarioPred, TRUE)

NextScenario ==
    \/ /\ NumInserts < Len(ScenarioGroups)
       /\ Insert(NumInserts + 1)
    \/ Pop

SpecScenario == InitScenario /\ [][NextScenario]_vars

\* All eight events were inserted before the first pop.
InsertedFirst ==
    /\ Len(log) >= Len(ScenarioGroups)
    /\ \A i \in 1..Len(ScenarioGroups) : InsertAt(i)

\* C14 (queue reference scenario): after inserting the eight events, the
\* queue returns them in the order 1, 2, 4, 3, 5, 8, 6, 7, that is groups
\* 1, 2, 3, 1, 2, 3, 1, 1, and the ninth pop returns none.
QueueScenario ==
    InsertedFirst =>
        /\ \A i \in (Len(ScenarioGroups) + 1)..Len(log) :
              /\ Returned("queue", i) = ScenarioPops[i - Len(ScenarioGroups)]
              /\ ScenarioGroups[Returned("queue", i)]
                    = <<1, 2, 3, 1, 2, 3, 1, 1>>[i - Len(ScenarioGroups)]
        /\ Len(log) = 2 * Len(ScenarioGroups) => QueuePop(queue).ret = None

\* The eight events were inserted, popped, and a ninth pop returned none.
QueueScenarioWitness ==
    /\ InsertedFirst
    /\ Len(log) = 2 * Len(ScenarioGroups)
    /\ last.op = "pop"
    /\ last.ret["queue"] = None

\* ------------------------------------------------------------------- C15
\* The log starts with the pushes of n items and holds only pops after them.
PushedThenPopped(n) ==
    /\ Len(log) >= n
    /\ \A i \in 1..n : InsertAt(i)
    /\ \A i \in (n + 1)..Len(log) : PopAt(i)

\* alternates_groups: a1, a2 of one group, then b1, b2 of another.
PushedAABB ==
    /\ PushedThenPopped(4)
    /\ Grp(log[1].arg) = Grp(log[2].arg)
    /\ Grp(log[3].arg) = Grp(log[4].arg)
    /\ Grp(log[1].arg) # Grp(log[3].arg)

\* The FairStack doc example: a1, a2 of one group, then b1 of another.
PushedAAB ==
    /\ PushedThenPopped(3)
    /\ Grp(log[1].arg) = Grp(log[2].arg)
    /\ Grp(log[1].arg) # Grp(log[3].arg)

\* C15 (stack reference scenarios): after pushing a1, a2, b1, b2 the stack
\* returns a2, b2, a1, b1 and then none; after pushing a1, a2, b1 it returns
\* a2, b1, a1 and then none.
StackScenario ==
    /\ PushedAABB =>
          /\ \A i \in 5..Len(log) :
                Returned("stack", i)
                   = <<log[2].arg, log[4].arg, log[1].arg, log[3].arg>>[i - 4]
          /\ Len(log) = 8 => StackPop(stack).ret = None
    /\ PushedAAB =>
          /\ \A i \in 4..Len(log) :
                Returned("stack", i)
                   = <<log[2].arg, log[3].arg, log[1].arg>>[i - 3]
          /\ Len(log) = 6 => StackPop(stack).ret = None

\* a1, a2, b1, b2 were pushed and popped and a fifth pop returned none.
StackScenarioWitness ==
    /\ PushedAABB
    /\ Len(log) = 8
    /\ last.op = "pop"
    /\ last.ret["stack"] = None

\* ------------------------------------------------------------------- C16
\* A plain queue / plain stack driven by the first i calls of the log: what
\* it holds, oldest item first.
RECURSIVE Plain(_, _)
Plain(k, i) ==
    IF i = 0 THEN <<>>
    ELSE LET s == Plain(k, i - 1) IN
         IF InsertAt(i) THEN Append(s, log[i].arg)
         ELSE IF k = "queue" THEN SubSeq(s, 2, Len(s))
         ELSE SubSeq(s, 1, Len(s) - 1)

\* What the plain container returns next: its oldest item (queue) or the one
\* pushed last (stack).
PlainNext(k, s) == IF k = "queue" THEN s[1] ELSE s[Len(s)]

\* C16 (constant-true predicate): when is_same_group always answers true,
\* there is never more than one group, and under any interleaving of
\* insert/push and pop the queue returns the items in insertion order and
\* the stack returns the most recently pushed resident item: both hold what
\* a plain queue / stack holds, and every pop returned what that returns.
DegeneratePlain ==
    pred = TruePred =>
        \A k \in Kinds :
            /\ Len(Container(k).groups) <= 1
            /\ Flatten(Container(k).groups) = Plain(k, Len(log))
            /\ (Len(log) > 0 /\ PopAt(Len(log)))
                  => Returned(k, Len(log))
                        = PlainNext(k, Plain(k, Len(log) - 1))

\* Under the constant-true predicate an insert came between two pops, and
\* the latest pop gave different items for the queue and the stack, while
\* items remain.
DegeneratePlainWitness ==
    /\ pred = TruePred
    /\ last.op = "pop"
    /\ Len(log) >= 5
    /\ PopAt(Len(log))
    /\ \E i \in 1..Len(log) : \E j \in (i + 1)..(Len(log) - 1) :
          PopAt(i) /\ InsertAt(j)
    /\ last.ret["queue"] # last.ret["stack"]
    /\ queue.len > 0

\* ------------------------------------------------------------------- C17
\* The caller never hands over a reference that container k still holds:
\* the resident references are pairwise distinct.
DistinctRefs(k) ==
    \A i \in 1..Len(log) :
        InsertAt(i) => log[i].arg \notin PendingBefore(k, i)

\* C17 (constant-false predicate): when is_same_group always answers false
\* and the item references are pairwise distinct, every item forms its own
\* group: each group holds exactly one item and group_count() = len().
SingletonGroups ==
    pred = FalsePred =>
        \A k \in Kinds :
            DistinctRefs(k) =>
                /\ \A i \in 1..Len(Container(k).groups) :
                      Len(Container(k).groups[i]) = 1
                /\ Len(Container(k).groups) = Container(k).len

\* Under the constant-false predicate three distinct references are resident
\* after a pop, one of them handed over again after it had been returned.
SingletonGroupsWitness ==
    /\ pred = FalsePred
    /\ \A k \in Kinds : DistinctRefs(k) /\ Container(k).len >= 3
    /\ last.op = "insert"
    /\ NumPops >= 1
    /\ \E v \in Values : InsertedCount(v) >= 2

\* ------------------------------------------------------------------- C18
\* ------------------------------------------------------- the accessors
\* (the oldest item of the group in place of the one pushed last)
StackPeekGroupOldest(c, sample) ==
    LET idx == StackFind(c.groups, sample) IN
    IF idx >= 0 THEN front(c.groups[idx + 1]) ELSE None

\* FairStack::peek_group
StackPeekGroup(c, sample) ==
    LET idx == StackFind(c.groups, sample) IN
    IF idx >= 0 THEN back(c.groups[idx + 1]) ELSE None

\* (the last item of the group in place of its front)
QueueGroupHeadsNextBack(iter) ==
    IF iter = <<>> THEN [item |-> None, iter |-> <<>>]
    ELSE [item |-> back(Head(iter)), iter |-> Tail(iter)]

\* QueueGroupHeads::next: the iterator is the slice of groups not yet
\* visited; the item is None when the slice is used up.
RECURSIVE QueueGroupHeadsNext(_)
QueueGroupHeadsNext(iter) ==
    IF iter = <<>> THEN [item |-> None, iter |-> <<>>]
    ELSE IF front(Head(iter)) # None
         THEN [item |-> front(Head(iter)), iter |-> Tail(iter)]
         ELSE QueueGroupHeadsNext(Tail(iter))

\* StackGroupHeads::next
RECURSIVE StackGroupHeadsNext(_)
StackGroupHeadsNext(iter) ==
    IF iter = <<>> THEN [item |-> None, iter |-> <<>>]
    ELSE IF back(Head(iter)) # None
         THEN [item |-> back(Head(iter)), iter |-> Tail(iter)]
         ELSE StackGroupHeadsNext(Tail(iter))

\* group_heads() consumed to the end, as group_heads_vec() does.
RECURSIVE QueueGroupHeads(_)
QueueGroupHeads(iter) ==
    LET n == QueueGroupHeadsNext(iter) IN
    IF n.item = None THEN <<>> ELSE <<n.item>> \o QueueGroupHeads(n.iter)

RECURSIVE StackGroupHeads(_)
StackGroupHeads(iter) ==
    LET n == StackGroupHeadsNext(iter) IN
    IF n.item = None THEN <<>> ELSE <<n.item>> \o StackGroupHeads(n.iter)

\* (the accessor normalises the pointer as pop does)
ReadResetsPointer(c, ret) == Outcome([c EXCEPT !.pointer = 0], ret, 0)

\* A method that takes &self: it returns ret and the container is after
\* the call what it was before.
Read(c, ret) == Outcome(c, ret, 0)

\* queue.peek(); stack.peek();
Peek ==
    LET q == Read(queue, QueuePeek(queue))
        s == Read(stack, StackPeek(stack))
    IN
    /\ queue' = q.c
    /\ stack' = s.c
    /\ last' = Call("peek", None, q.ret, s.ret)
    /\ UNCHANGED <<pred, log, recording>>

\* stack.peek_group(&sample);  (the queue has no such method)
PeekGroup(sample) ==
    LET s == Read(stack, StackPeekGroup(stack, sample)) IN
    /\ stack' = s.c
    /\ last' = Call("peek_group", sample, None, s.ret)
    /\ UNCHANGED <<queue, pred, log, recording>>

\* queue.len(); stack.len();
LenCall ==
    LET q == Read(queue, queue.len)
        s == Read(stack, stack.len)
    IN
    /\ queue' = q.c
    /\ stack' = s.c
    /\ last' = Call("len", None, q.ret, s.ret)
    /\ UNCHANGED <<pred, log, recording>>

\* queue.is_empty(); stack.is_empty();
IsEmpty ==
    LET q == Read(queue, queue.len = 0)
        s == Read(stack, stack.len = 0)
    IN
    /\ queue' = q.c
    /\ stack' = s.c
    /\ last' = Call("is_empty", None, q.ret, s.ret)
    /\ UNCHANGED <<pred, log, recording>>

\* queue.group_count(); stack.group_count();
GroupCount ==
    LET q == Read(queue, Len(queue.groups))
        s == Read(stack, Len(stack.groups))
    IN
    /\ queue' = q.c
    /\ stack' = s.c
    /\ last' = Call("group_count", None, q.ret, s.ret)
    /\ UNCHANGED <<pred, log, recording>>

\* queue.group_heads() and stack.group_heads(), each iterated to the end.
GroupHeads ==
    LET q == Read(queue, QueueGroupHeads(queue.groups))
        s == Read(stack, StackGroupHeads(stack.groups))
    IN
    /\ queue' = q.c
    /\ stack' = s.c
    /\ last' = Call("group_heads", None, q.ret, s.ret)
    /\ UNCHANGED <<pred, log, recording>>

\* SpecRead: a caller who also reads, at any time and as often as they
\* like; the items are those of the tests, each handed over at most once
\* between two calls of clear.
MaxReadLog == 5

\* The references the reading caller holds: one more than there are groups,
\* so that two of them are of the same group.
ReadValues == 1..(NumGroups + 1)

InitRead == InitWith(GroupPred, TRUE)

NextRead ==
    \/ \E v \in ReadValues \ Inserted :
          /\ Len(log) < MaxReadLog
          /\ queue.len < MaxLen
          /\ Insert(v)
    \/ (Len(log) < MaxReadLog \/ queue.len = 0) /\ Pop
    \/ Clear
    \/ Peek
    \/ \E sample \in ReadValues : PeekGroup(sample)
    \/ LenCall
    \/ IsEmpty
    \/ GroupCount
    \/ GroupHeads

SpecRead == InitRead /\ [][NextRead]_vars

ReadOps == {"peek", "peek_group", "len", "is_empty", "group_count",
            "group_heads"}

\* The containers after the first i calls of log l (inserts and pops that
\* returned an item) and no other call.
RECURSIVE ReplayQueue(_, _)
ReplayQueue(l, i) ==
    IF i = 0 THEN new
    ELSE IF l[i].op = "insert" THEN insert(ReplayQueue(l, i - 1), l[i].arg)
    ELSE QueuePop(ReplayQueue(l, i - 1)).c

RECURSIVE ReplayStack(_, _)
ReplayStack(l, i) ==
    IF i = 0 THEN new
    ELSE IF l[i].op = "insert" THEN push(ReplayStack(l, i - 1), l[i].arg)
    ELSE StackPop(ReplayStack(l, i - 1)).c

\* C18 (read-only accessors): peek, peek_group, len, is_empty, group_count
\* and group_heads iterated to the end leave the groups, their contents,
\* the pointer and the count of both containers as they were; the next pop
\* does what it would have done without the call, and the containers are
\* what the inserts and pops alone, without any accessor call, lead to.
ReadsDoNotMutate ==
    [][last'.op \in ReadOps =>
          /\ queue' = queue
          /\ stack' = stack
          /\ QueuePop(queue') = QueuePop(queue)
          /\ StackPop(stack') = StackPop(stack)
          /\ queue' = ReplayQueue(log', Len(log'))
          /\ stack' = ReplayStack(log', Len(log'))]_vars

\* group_heads was iterated to the end after a pop had moved the pointer
\* off the first group; the queue gave other heads than the stack.
ReadsDoNotMutateWitness ==
    /\ last.op = "group_heads"
    /\ Len(last.ret["queue"]) >= 2
    /\ last.ret["queue"] # last.ret["stack"]
    /\ queue.pointer > 0
    /\ stack.pointer > 0
    /\ NumPops >= 1

\* ------------------------------------------------------------------- C19
\* The representative of a group: its front (queue) or its last item (stack).
Representative(k, g) == IF k = "queue" THEN front(g) ELSE back(g)

\* The two directions in which is_same_group can be asked about a group and
\* a candidate; either way an identical reference matches.
CandidateAsReceiver(k, g, value) ==
    \/ Representative(k, g) = value
    \/ <<value, Representative(k, g)>> \in pred

RepresentativeAsReceiver(k, g, value) ==
    \/ Representative(k, g) = value
    \/ <<Representative(k, g), value>> \in pred

\* Groups after is groups before with value appended to the group at
\* position i, or with a new group of value alone at the end when i = 0.
JoinedAt(before, after, i, value) ==
    IF i = 0
    THEN after = Append(before, <<value>>)
    ELSE after = [before EXCEPT ![i] = Append(@, value)]

\* The position of the first group that matches in the candidate's
\* direction / in the representative's direction, 0 when there is none.
FirstByCandidate(k, gs, value) ==
    IF \E i \in 1..Len(gs) : CandidateAsReceiver(k, gs[i], value)
    THEN CHOOSE i \in 1..Len(gs) :
            /\ CandidateAsReceiver(k, gs[i], value)
            /\ \A j \in 1..(i - 1) : ~CandidateAsReceiver(k, gs[j], value)
    ELSE 0

FirstByRepresentative(k, gs, value) ==
    IF \E i \in 1..Len(gs) : RepresentativeAsReceiver(k, gs[i], value)
    THEN CHOOSE i \in 1..Len(gs) :
            /\ RepresentativeAsReceiver(k, gs[i], value)
            /\ \A j \in 1..(i - 1) : ~RepresentativeAsReceiver(k, gs[j], value)
    ELSE 0

\* C19 as stated (predicate call direction, candidate as receiver): the new
\* item joins the first group G for which
\* candidate.is_same_group(representative(G)) holds or whose representative
\* is the candidate itself, and founds a new group when there is none.
CandidateDirection ==
    [][last'.op = "insert" =>
          /\ JoinedAt(queue.groups, queue'.groups,
                      FirstByCandidate("queue", queue.groups, last'.arg),
                      last'.arg)
          /\ JoinedAt(stack.groups, stack'.groups,
                      FirstByCandidate("stack", stack.groups, last'.arg),
                      last'.arg)]_vars

\* C19 amended (predicate call direction, representative as receiver): the
\* new item joins the first group G for which
\* representative(G).is_same_group(candidate) holds or whose representative
\* is the candidate itself, and founds a new group when there is none; with
\* an asymmetric predicate the grouping follows that direction.
RepresentativeDirection ==
    [][last'.op = "insert" =>
          /\ JoinedAt(queue.groups, queue'.groups,
                      FirstByRepresentative("queue", queue.groups, last'.arg),
                      last'.arg)
          /\ JoinedAt(stack.groups, stack'.groups,
                      FirstByRepresentative("stack", stack.groups, last'.arg),
                      last'.arg)]_vars

\* Under the asymmetric predicate "receiver < argument" the item handed over
\* last has joined, in both containers, a group whose representative at the
\* time was smaller; asked the other way round it would not have matched.
RepresentativeDirectionWitness ==
    /\ pred = LessPred
    /\ last.op = "insert"
    /\ \E i \in 1..Len(queue.groups) :
          LET g == queue.groups[i] IN
          /\ Len(g) >= 2
          /\ g[Len(g)] = last.arg
          /\ g[1] < last.arg
    /\ \E i \in 1..Len(stack.groups) :
          LET g == stack.groups[i] IN
          /\ Len(g) >= 2
          /\ g[Len(g)] = last.arg
          /\ g[Len(g) - 1] < last.arg

\* ------------------------------------------------------------------- C20
\* The positions of the groups of gs whose representative matches value.
MatchingGroups(k, gs, value) ==
    {i \in 1..Len(gs) : RepresentativeAsReceiver(k, gs[i], value)}

\* Container k went from before to after by placing value: at the tail of
\* the matching group of lowest position, wherever the pointer is, or as a
\* new group of its own at the end when no group matches; the pointer and
\* every other group are as before.
PlacedIn(k, before, after, value) ==
    LET M == MatchingGroups(k, before.groups, value)
        n == Len(before.groups)
    IN
    /\ after.pointer = before.pointer
    /\ IF M = {}
       THEN /\ Len(after.groups) = n + 1
            /\ after.groups[n + 1] = <<value>>
            /\ \A i \in 1..n : after.groups[i] = before.groups[i]
       ELSE LET m == CHOOSE i \in M : \A j \in M : i <= j IN
            /\ Len(after.groups) = n
            /\ after.groups[m] = Append(before.groups[m], value)
            /\ \A i \in (1..n) \ {m} : after.groups[i] = before.groups[i]

\* C20 (insertion placement): insert/push scans the groups from index 0 in
\* sequence order, independent of the cursor; the item is appended at the
\* tail of the lowest-index group whose representative (front for the
\* queue, last for the stack) matches, and when none matches a new
\* single-item group is appended at the end; the cursor and all other
\* groups are left unchanged.
InsertPlacement ==
    [][last'.op = "insert" =>
          /\ PlacedIn("queue", queue, queue', last'.arg)
          /\ PlacedIn("stack", stack, stack', last'.arg)]_vars

\* With the cursor off the first group, the item handed over last matched
\* the first group and also the group at the cursor, and sits at the tail of
\* the first group in both containers.
InsertPlacementWitness ==
    /\ last.op = "insert"
    /\ \A k \in Kinds :
          LET c == Container(k) IN
          /\ c.pointer > 0
          /\ c.pointer < Len(c.groups)
          /\ Len(c.groups[1]) >= 2
          /\ back(c.groups[1]) = last.arg
          /\ RepresentativeAsReceiver(k, c.groups[c.pointer + 1], last.arg)
          /\ Representative(k, c.groups[c.pointer + 1]) # last.arg

\* ------------------------------------------------------------------- C21
\* Container k went from before to after by a pop that returned an item:
\* the group at the cursor lost one item; when it still holds items the
\* cursor moved on by one, modulo the number of groups; when it became
\* empty the last group took its slot, the others kept theirs, and the
\* cursor stayed (so that the group moved there is the next to be served)
\* unless it then pointed past the end, where it was reset to 0.
CursorStep(k, before, after) ==
    LET p == before.pointer
        n == Len(before.groups)
        g == before.groups[p + 1]
    IN
    /\ p < n
    /\ Len(g) >= 1
    /\ IF Len(g) > 1
       THEN /\ Len(after.groups) = n
            /\ Len(after.groups[p + 1]) = Len(g) - 1
            /\ \A i \in (1..n) \ {p + 1} : after.groups[i] = before.groups[i]
            /\ after.pointer = (p + 1) % n
       ELSE /\ Len(after.groups) = n - 1
            /\ \A i \in (1..(n - 1)) \ {p + 1} :
                  after.groups[i] = before.groups[i]
            /\ p + 1 <= n - 1 =>
                  /\ after.groups[p + 1] = before.groups[n]
                  /\ after.pointer = p
                  /\ Representative(k, after.groups[after.pointer + 1])
                        = Representative(k, before.groups[n])
            /\ p + 1 > n - 1 => after.pointer = 0

\* C21 (cursor update on pop): if the serviced group stays non-empty the
\* cursor becomes (cursor + 1) mod group_count; if it becomes empty it is
\* removed by swap-with-last, the order of the others is unchanged and the
\* cursor stays where it was, so the moved group is serviced by the next
\* pop, unless the cursor is now out of bounds or the sequence is empty, in
\* which case it is reset to 0.
CursorUpdate ==
    [][(last'.op = "pop" /\ last'.ret["queue"] # None) =>
          /\ CursorStep("queue", queue, queue')
          /\ CursorStep("stack", stack, stack')
          /\ (Len(queue'.groups) < Len(queue.groups)
                 /\ queue.pointer < Len(queue'.groups))
                => QueuePop(queue').ret
                      = front(queue.groups[Len(queue.groups)])
          /\ (Len(stack'.groups) < Len(stack.groups)
                 /\ stack.pointer < Len(stack'.groups))
                => StackPop(stack').ret
                      = back(stack.groups[Len(stack.groups)])]_vars

\* The latest pop took the last item of the group at index 1 of three; the
\* group that was last now sits at index 1, under the cursor.
CursorUpdateWitness ==
    /\ pred = GroupPred
    /\ last.op = "pop"
    /\ \A k \in Kinds :
          /\ last.ret[k] # None
          /\ \A w \in Resident(k) : Grp(w) # Grp(last.ret[k])
          /\ Container(k).pointer = 1
          /\ Len(Container(k).groups) = 2

\* ------------------------------------------------------------------- C22
\* Container k has served logical group g before and holds none of its
\* items now: the group was retired.
Retired(k, g) ==
    /\ \E i \in 1..Len(log) : PopAt(i) /\ Grp(Returned(k, i)) = g
    /\ \A w \in Resident(k) : Grp(w) # g

\* Groups after is groups before with a new group of value alone at the
\* last index.
NewGroupAtEnd(before, after, value) ==
    /\ Len(after) = Len(before) + 1
    /\ after[Len(after)] = <<value>>
    /\ \A i \in 1..Len(before) : after[i] = before[i]

\* C22 (retired groups are not revived): once pop has drained the last
\* item of a logical group, the next insert/push of an item of that logical
\* group creates a new group at the last index of the sequence, and
\* group_count grows by one.
RetiredNotRevived ==
    [][last'.op = "insert" =>
          /\ Retired("queue", Grp(last'.arg))
                => NewGroupAtEnd(queue.groups, queue'.groups, last'.arg)
          /\ Retired("stack", Grp(last'.arg))
                => NewGroupAtEnd(stack.groups, stack'.groups, last'.arg)]_vars

\* The logical group that was the first to arrive was drained by a pop
\* while two others waited; its next item now sits alone behind them.
RetiredNotRevivedWitness ==
    /\ last.op = "insert"
    /\ InsertAt(1)
    /\ log[1].arg # last.arg
    /\ Grp(log[1].arg) = Grp(last.arg)
    /\ \A k \in Kinds :
          /\ \E i \in 1..Len(log) :
                PopAt(i) /\ Grp(Returned(k, i)) = Grp(last.arg)
          /\ Len(Container(k).groups) >= 3
          /\ Container(k).groups[Len(Container(k).groups)] = <<last.arg>>

\* ------------------------------------------------------------------- C23
\* What the n-th call of next() on the iterator of container k returns
\* (n >= 1), and the iterator it leaves.
RECURSIVE NthNext(_, _, _)
NthNext(k, iter, n) ==
    LET first == IF k = "queue" THEN QueueGroupHeadsNext(iter)
                 ELSE StackGroupHeadsNext(iter)
    IN IF n = 1 THEN first ELSE NthNext(k, first.iter, n - 1)

\* The representatives of the groups of container k, index 0 upward.
Representatives(k) ==
    [i \in 1..Len(Container(k).groups) |->
        Representative(k, Container(k).groups[i])]

\* C23 (group_heads): the iterator yields, in sequence order from index 0
\* and not from the cursor, exactly one item per live group, namely its
\* representative (front for the queue, last for the stack): group_count()
\* items and then none.
HeadsInOrder ==
    \A k \in Kinds :
        LET gs == Container(k).groups
            n == Len(gs)
        IN
        /\ \A i \in 1..n : NthNext(k, gs, i).item = Representative(k, gs[i])
        /\ NthNext(k, gs, n + 1).item = None
        /\ NthNext(k, gs, n + 2).item = None
        /\ last.op = "group_heads" =>
              /\ last.ret[k] = Representatives(k)
              /\ Len(last.ret[k]) = n

\* group_heads was iterated over three groups with the cursor on the second
\* of them: the first item it gave is not the item peek gives, and one
\* group holds two items, so queue and stack gave different heads.
HeadsInOrderWitness ==
    /\ last.op = "group_heads"
    /\ \A k \in Kinds :
          /\ Len(last.ret[k]) = 3
          /\ Container(k).pointer = 1
          /\ last.ret[k][1] # PeekOf(k)
          /\ last.ret[k][2] = PeekOf(k)
    /\ last.ret["queue"] # last.ret["stack"]

\* ------------------------------------------------------------------- C24
\* The item the stack c returns the next time it serves logical group g,
\* when it is popped until then; None when it runs empty first.
RECURSIVE NextOfGroup(_, _)
NextOfGroup(c, g) ==
    LET o == StackPop(c) IN
    IF o.ret = None THEN None
    ELSE IF Grp(o.ret) = g THEN o.ret
    ELSE NextOfGroup(o.c, g)

\* C24 (peek_group): FairStack::peek_group(sample) returns the last item of
\* the lowest-index group whose last item is identical to or same-group
\* with the sample, returns none when no group matches, and never changes
\* the cursor; with an equivalence-relation predicate the result is the
\* item pop returns the next time that group is serviced.
PeekGroupResult ==
    [][last'.op = "peek_group" =>
          LET sample == last'.arg
              ret == last'.ret["stack"]
              M == MatchingGroups("stack", stack.groups, sample)
          IN
          /\ stack'.pointer = stack.pointer
          /\ M = {} => ret = None
          /\ M # {} =>
                ret = back(stack.groups[CHOOSE i \in M : \A j \in M : i <= j])
          /\ ret = NextOfGroup(stack, Grp(sample))]_vars

\* peek_group was asked with a sample that the stack does not hold and gave
\* another item of the sample's group, from a group that is not at the
\* cursor.
PeekGroupResultWitness ==
    /\ last.op = "peek_group"
    /\ last.arg \notin Resident("stack")
    /\ last.ret["stack"] # None
    /\ last.ret["stack"] # last.arg
    /\ Grp(last.ret["stack"]) = Grp(last.arg)
    /\ StackPeek(stack) # last.ret["stack"]
    /\ stack.pointer > 0

\* ------------------------------------------------------------------- C25
Items == Values \cup {None}

\* pop of container k applied to c.
PopOf(k, c) == IF k = "queue" THEN QueuePop(c) ELSE StackPop(c)

\* The run-time checks pop passes on its way through c: indexing
\* self.groups[self.pointer] (after the pointer was normalised), the
\* subtraction self.len -= 1 on usize, and the modulus of the advance.
PopChecksPass(k, c) ==
    LET n == Len(c.groups)
        p == IF c.pointer >= n THEN 0 ELSE c.pointer
        o == PopOf(k, c)
    IN
    /\ c.len > 0 =>
          /\ n > 0
          /\ p < n
          /\ c.groups[p + 1] # <<>>
          /\ c.len - 1 >= 0
          /\ Len(c.groups[p + 1]) > 1 => Len(o.c.groups) # 0
    /\ o.ret \in Items
    /\ o.iters \in Nat
    /\ o.c.len \in Nat
    /\ o.c.pointer \in Nat

\* C25 (totality): from every reachable state insert/push, pop, peek,
\* peek_group, group_heads, len, is_empty, group_count and clear complete
\* with a result; in pop the index groups[cursor] is in bounds, the modulus
\* group_count is not zero when the cursor is advanced, and the count is
\* never decremented below zero.
Totality ==
    /\ \A k \in Kinds :
          LET c == Container(k) IN
          /\ c.len \in Nat
          /\ c.pointer \in Nat
          /\ PopChecksPass(k, c)
          /\ PeekOf(k) \in Items
          /\ Len(c.groups) \in Nat
          /\ (c.len = 0) \in BOOLEAN
          /\ clear(c) = new
    /\ \A v \in 1..NumAnyValues :
          /\ insert(queue, v).len = queue.len + 1
          /\ push(stack, v).len = stack.len + 1
          /\ StackPeekGroup(stack, v) \in Items
    /\ Len(QueueGroupHeads(queue.groups)) \in Nat
    /\ Len(StackGroupHeads(stack.groups)) \in Nat

\* Every item was put into one group; the latest of at least two pops took
\* an item from it, found it at index 0 of one group, and advanced the
\* cursor modulo one while items remain.
TotalityWitness ==
    /\ pred = TruePred
    /\ last.op = "pop"
    /\ NumPops >= 2
    /\ \A k \in Kinds :
          /\ last.ret[k] # None
          /\ Len(Container(k).groups) = 1
          /\ Len(Container(k).groups[1]) >= 2
          /\ Container(k).pointer = 0

\* ------------------------------------------------------------------- C26
\* The positions of the groups of gs whose representative is value itself.
IdenticalGroups(k, gs, value) ==
    {i \in 1..Len(gs) : Representative(k, gs[i]) = value}

\* Container k took value, for which is_same_group(value, value) is false:
\* every group whose representative is value itself has value at its tail
\* afterwards, and there is no new group.
JoinsIdentical(k, before, after, value) ==
    \A i \in IdenticalGroups(k, before.groups, value) :
        /\ Len(after.groups) = Len(before.groups)
        /\ after.groups[i] = Append(before.groups[i], value)

\* Container k took value, for which is_same_group(value, value) is false:
\* when a group has value itself as representative there is no new group,
\* and value is at the tail of that group unless a group of lower index
\* matches as well.
JoinsIdenticalOrEarlier(k, before, after, value) ==
    \A i \in IdenticalGroups(k, before.groups, value) :
        /\ Len(after.groups) = Len(before.groups)
        /\ (\A j \in 1..(i - 1) :
               ~RepresentativeAsReceiver(k, before.groups[j], value))
              => after.groups[i] = Append(before.groups[i], value)
        /\ \E j \in 1..i :
              /\ RepresentativeAsReceiver(k, before.groups[j], value)
              /\ after.groups[j] = Append(before.groups[j], value)

\* C26 as stated (identity fast path): inserting/pushing a reference that
\* is identical to a group's current representative places it in that
\* group even when the predicate returns false for the pair, so
\* re-inserting a resident representative never creates a new group.
IdentityJoinsThatGroup ==
    [][(last'.op = "insert" /\ <<last'.arg, last'.arg>> \notin pred) =>
          /\ JoinsIdentical("queue", queue, queue', last'.arg)
          /\ JoinsIdentical("stack", stack, stack', last'.arg)]_vars

\* C26 amended (identity fast path): inserting/pushing a reference that is
\* identical to a group's current representative never creates a new
\* group, even when the predicate returns false for the pair; the item is
\* placed in that group unless a group of lower index matches it (by
\* identity or by the predicate), in which case it is placed in the lowest
\* such group.
IdentityFastPath ==
    [][(last'.op = "insert" /\ <<last'.arg, last'.arg>> \notin pred) =>
          /\ JoinsIdenticalOrEarlier("queue", queue, queue', last'.arg)
          /\ JoinsIdenticalOrEarlier("stack", stack, stack', last'.arg)]_vars

\* Under a predicate that is false for the pair, the reference handed over
\* last was the representative of a group that is not the first, and sits
\* twice in that group now.
IdentityFastPathWitness ==
    /\ last.op = "insert"
    /\ <<last.arg, last.arg>> \notin pred
    /\ \A k \in Kinds :
          \E i \in 2..Len(Container(k).groups) :
              Container(k).groups[i] = <<last.arg, last.arg>>

\* ------------------------------------------------------------------- C27
\* is_same_group is reflexive, symmetric and transitive on the items.
IsEquivalence ==
    /\ \A a \in Values : <<a, a>> \in pred
    /\ \A a, b \in Values : <<a, b>> \in pred => <<b, a>> \in pred
    /\ \A a, b, c \in Values :
          (<<a, b>> \in pred /\ <<b, c>> \in pred) => <<a, c>> \in pred

\* C27 (queue and stack are structurally identical): driven by the same
\* calls over the same items with the same equivalence-relation predicate,
\* both have after every step the same len(), the same group_count(), the
\* same cursor and the same group size at every index, and every pop
\* returns items of the same logical group in both.
StructurallyIdentical ==
    \/ /\ queue.len = stack.len
       /\ Len(queue.groups) = Len(stack.groups)
       /\ queue.pointer = stack.pointer
       /\ \A i \in 1..Len(queue.groups) :
             /\ Len(queue.groups[i]) = Len(stack.groups[i])
             /\ <<front(queue.groups[i]), back(stack.groups[i])>> \in pred
       /\ last.op = "pop" =>
             IF last.ret["queue"] = None
             THEN last.ret["stack"] = None
             ELSE /\ last.ret["stack"] # None
                  /\ <<last.ret["queue"], last.ret["stack"]>> \in pred
    \/ ~IsEquivalence

\* The latest pop gave different items of one logical group for the queue
\* and the stack, after an earlier pop had retired a group; at least two
\* groups remain and the cursor is off the first.
StructurallyIdenticalWitness ==
    /\ IsEquivalence
    /\ last.op = "pop"
    /\ last.ret["queue"] # None
    /\ last.ret["queue"] # last.ret["stack"]
    /\ Len(queue.groups) >= 2
    /\ queue.pointer > 0
    /\ \E i \in 1..(Len(log) - 1) :
          PopAt(i) /\ \A w \in Resident("queue") :
                         Grp(w) # Grp(Returned("queue", i))

\* ------------------------------------------------------------------- C28
\* The items of group g, as a set.
Members(g) == {g[i] : i \in 1..Len(g)}

\* The logical groups (classes of is_same_group) that have an item pending
\* in container k.
PendingClasses(k) ==
    {{w \in Resident(k) : <<v, w>> \in pred} : v \in Resident(k)}

\* C28 (one bucket per logical group): with an equivalence-relation
\* predicate, in every reachable state all items inside one group are
\* mutually same-group and no two live groups hold items of the same
\* logical group, so group_count() equals the number of distinct logical
\* groups that currently have pending items.
OneBucketPerGroup ==
    \/ \A k \in Kinds :
          LET gs == Container(k).groups IN
          /\ \A i \in 1..Len(gs) :
                \A a, b \in Members(gs[i]) : <<a, b>> \in pred
          /\ \A i, j \in 1..Len(gs) :
                i # j => \A a \in Members(gs[i]) :
                             \A b \in Members(gs[j]) : <<a, b>> \notin pred
          /\ Len(gs) = Cardinality(PendingClasses(k))
    \/ ~IsEquivalence

\* After a pop, the item handed over last joined a group that is not the
\* first and holds another item of its logical group; three groups are
\* live.
OneBucketPerGroupWitness ==
    /\ IsEquivalence
    /\ last.op = "insert"
    /\ NumPops >= 1
    /\ \A k \in Kinds :
          /\ Len(Container(k).groups) >= 3
          /\ \E i \in 2..Len(Container(k).groups) :
                /\ last.arg \in Members(Container(k).groups[i])
                /\ Len(Container(k).groups[i]) >= 2

\* ------------------------------------------------------------------- C29
\* C29 (queue insert never changes the next item): for a non-empty
\* FairQueue, insert of any item leaves peek(), and with it the result of
\* the next pop, unchanged.
InsertKeepsNext ==
    [][(last'.op = "insert" /\ queue.len > 0) =>
          /\ QueuePeek(queue) # None
          /\ QueuePeek(queue') = QueuePeek(queue)
          /\ QueuePop(queue').ret = QueuePop(queue).ret]_vars

\* The item handed over last joined the group under the cursor, which is
\* not the first group; the queue still offers that group's front, while
\* the stack now offers the new item.
InsertKeepsNextWitness ==
    /\ last.op = "insert"
    /\ queue.pointer > 0
    /\ queue.pointer < Len(queue.groups)
    /\ Len(queue.groups[queue.pointer + 1]) >= 2
    /\ back(queue.groups[queue.pointer + 1]) = last.arg
    /\ QueuePeek(queue) # last.arg
    /\ StackPeek(stack) = last.arg

\* ------------------------------------------------------------------- C30
\* pop of container k in state c enters the loop, finds groups, finds an
\* item in the group at the normalised cursor and returns it in the first
\* iteration: neither the removal of an already empty group nor the
\* in-loop return for an empty sequence is executed.
FirstIterationReturns(k, c) ==
    LET n == Len(c.groups)
        p == IF c.pointer >= n THEN 0 ELSE c.pointer
        o == PopOf(k, c)
    IN
    /\ n > 0
    /\ c.groups[p + 1] # <<>>
    /\ o.iters = 1
    /\ o.ret = Representative(k, c.groups[p + 1])

\* C30 (the defensive fallback in pop is dead code): in every state
\* reachable through the public operations the group at the normalised
\* cursor yields an item, so the branch that swap-removes an already empty
\* group, and the in-loop return for an empty sequence while the count is
\* positive, are never executed, and pop performs exactly one loop
\* iteration.
FallbackDead ==
    \A k \in Kinds :
        /\ Container(k).len > 0 => FirstIterationReturns(k, Container(k))
        /\ Container(k).len = 0 => PopOf(k, Container(k)).iters = 0

\* Two pops in a row each took the last item of a group and had the group
\* removed; the cursor is on the first group and items remain for a pop
\* that again returns in its first iteration.
FallbackDeadWitness ==
    /\ last.op = "pop"
    /\ Len(log) >= 2
    /\ PopAt(Len(log))
    /\ PopAt(Len(log) - 1)
    /\ \A k \in Kinds :
          /\ Returned(k, Len(log)) \notin Resident(k)
          /\ Returned(k, Len(log) - 1) \notin Resident(k)
          /\ Returned(k, Len(log) - 1) # Returned(k, Len(log))
          /\ Container(k).pointer = 0
          /\ Container(k).len > 0
          /\ PopOf(k, Container(k)).iters = 1

====
